---- MODULE Spec2Model ----
(***************************************************************************)
(* Model of fluent_comments/views.py: the Ajax comment submission view     *)
(* post_comment_ajax and its JSON envelope builder _ajax_result.           *)
(*                                                                         *)
(* Requests are handled one at a time (the view is sequential and          *)
(* synchronous); the database of persisted comments and the two signal     *)
(* registries outlive a request, everything else is per request.           *)
(*                                                                         *)
(* Python values:                                                          *)
(*   None        is the empty sequence <<>>, a present value v is <<v>>    *)
(*               wherever a field may be None (html, comment_id, ...);     *)
(*   a QueryDict is a function from the keys that are present to values;   *)
(*   a content_type string is a sequence of tokens in which "." is the     *)
(*               separator character, so that split(".", 1) is computed.   *)
(*                                                                         *)
(* External collaborators are modelled by their contract:                  *)
(*   Signal.send calls every receiver in registration order, collects      *)
(*     (receiver, response) pairs and lets a receiver's exception          *)
(*     propagate; receivers are functions (they have a __name__);          *)
(*   the comment form reports an error for each required field that is     *)
(*     blank, and a security error when the security hash is not valid;    *)
(*   get_comment_object builds a new unsaved comment (id None);            *)
(*   save() inserts the comment and assigns the next identifier.           *)
(***************************************************************************)
EXTENDS Integers, Sequences, FiniteSets, TLC

VARIABLES
    will_be_posted,   \* number of receivers registered on comment_will_be_posted
    was_posted,       \* number of receivers registered on comment_was_posted
    db,               \* identifiers of the persisted comments
    nextId,           \* identifier the next insert gets
    pc,               \* position of the view in the current request
    request,          \* the HTTP request being handled
    data,             \* request.POST.copy(), the working field set
    target,           \* the resolved target object (None or <<pk>>)
    form,             \* the bound comment form
    comment,          \* the comment object (None or <<record>>)
    responses,        \* (receiver, response) pairs returned by the pre-save send
    invoked,          \* (receiver, outcome) of each pre-save receiver called, in call order
    notified,         \* (receiver, outcome) of each post-save receiver called, in call order
    events,           \* side effects of this request, in order
    dbBefore,         \* the database when the request arrived
    response          \* the HTTP response (status 0: none yet)

vars == <<will_be_posted, was_posted, db, nextId, pc, request, data, target,
          form, comment, responses, invoked, notified, events, dbBefore,
          response>>

\* ---------------------------------------------------------------- bounds
MaxPreListeners == 2
MaxPostListeners == 1
MaxComments == 2

\* ---------------------------------------------------------------- values
None == <<>>
Some(v) == <<v>>

\* QueryDict / dict helpers
Get(d, k, default) == IF k \in DOMAIN d THEN d[k] ELSE default
Put(d, k, v) == [x \in (DOMAIN d) \cup {k} |-> IF x = k THEN v ELSE d[x]]

\* users: AnonymousUser, a user with a full profile, a user with only a login
AnonymousUser == [is_authenticated |-> FALSE, full_name |-> "", username |-> "", email |-> ""]
Alice == [is_authenticated |-> TRUE, full_name |-> "Alice A", username |-> "alice", email |-> "alice@example.org"]
Bob == [is_authenticated |-> TRUE, full_name |-> "", username |-> "bob", email |-> ""]
Users == {AnonymousUser, Alice, Bob}

\* content_type strings, as token sequences
CtNoDot == <<"article">>
CtUnknown == <<"blog", ".", "nomodel">>
CtTwoDots == <<"blog", ".", "article", ".", "x">>
CtValid == <<"blog", ".", "article">>
ContentTypes == {CtNoDot, CtUnknown, CtTwoDots, CtValid}

\* object_pk strings: malformed for an integer key, well-formed without a row, an existing row
ObjectPks == {"abc", "99", "1"}

\* the type registry and the rows of the one registered model
InstalledModels == {<<"blog", "article">>}
ExistingPks == {"1"}
WellFormedPks == {"1", "99"}

RequiredFields == {"name", "email", "comment"}

\* what a comment_will_be_posted receiver can do: return True, False, None,
\* 0 (equal to False in Python), "" (falsy, not equal to False), or raise
ReceiverReturns == {"True", "False", "None", "0", "''"}
Raise == "raise"
ReceiverOutcomes == ReceiverReturns \cup {Raise}

\* variant: "not response", the truth value of the response
NotResponse(r) == r \in {"False", "0", "None", "''"}

\* Python: response == False
EqualsFalse(r) == r \in {"False", "0"}

\* ---------------------------------------------------------------- requests
\* each posted field is absent (<<>>) or present with one value (<<v>>)
FieldChoices ==
    [ name         : {None, Some("Carol")},
      email        : {Some(""), Some("carol@example.org")},
      comment      : {Some(""), Some("Nice post")},
      content_type : {None} \cup {Some(c) : c \in ContentTypes},
      object_pk    : {None} \cup {Some(p) : p \in ObjectPks},
      preview      : {None, Some(""), Some("1")},
      security_hash: {Some("forged"), Some("valid")} ]

FieldNames == {"name", "email", "comment", "content_type", "object_pk", "preview", "security_hash"}

QueryDict(choice) ==
    [k \in {f \in FieldNames : choice[f] # None} |-> choice[k][1]]

Requests ==
    { [is_ajax |-> a, user |-> u, POST |-> QueryDict(c), META |-> m] :
        a \in BOOLEAN, u \in Users, c \in FieldChoices,
        m \in {[x \in {} |-> ""], [x \in {"REMOTE_ADDR"} |-> "10.0.0.1"]} }

NoRequest == [is_ajax |-> FALSE, user |-> AnonymousUser, POST |-> <<>>, META |-> <<>>]
NoForm == [errors |-> {}, security_errors |-> {}]
NoResponse == [status |-> 0, mimetype |-> "", message |-> "", detail |-> <<>>, json |-> None]

\* ---------------------------------------------------------------- responses
HttpResponseBadRequest(msg, detail) ==
    [status |-> 400, mimetype |-> "text/html", message |-> msg, detail |-> detail, json |-> None]
CommentPostBadRequest(msg, detail) == HttpResponseBadRequest(msg, detail)
ServerError ==
    [status |-> 500, mimetype |-> "text/html", message |-> "unhandled exception", detail |-> <<>>, json |-> None]
HttpResponse(json_response) ==
    [status |-> 200, mimetype |-> "application/json", message |-> "", detail |-> <<>>, json |-> Some(json_response)]

Init ==
    /\ will_be_posted \in 0..MaxPreListeners
    /\ was_posted \in 0..MaxPostListeners
    /\ db = {}
    /\ nextId = 1
    /\ pc = "idle"
    /\ request = NoRequest
    /\ data = <<>>
    /\ target = None
    /\ form = NoForm
    /\ comment = None
    /\ responses = <<>>
    /\ invoked = <<>>
    /\ notified = <<>>
    /\ events = <<>>
    /\ dbBefore = {}
    /\ response = NoResponse

\* the state between two requests
Idle ==
    /\ pc' = "idle"
    /\ request' = NoRequest
    /\ data' = <<>>
    /\ target' = None
    /\ form' = NoForm
    /\ comment' = None
    /\ responses' = <<>>
    /\ invoked' = <<>>
    /\ notified' = <<>>
    /\ events' = <<>>
    /\ dbBefore' = db
    /\ response' = NoResponse

\* a request arrives (it passed csrf_protect and require_POST)
Receive ==
    /\ pc = "idle"
    /\ nextId <= MaxComments
    /\ \E r \in Requests : request' = r
    /\ pc' = "is_ajax"
    /\ dbBefore' = db
    /\ UNCHANGED <<will_be_posted, was_posted, db, nextId, data, target, form,
                   comment, responses, invoked, notified, events, response>>

\* the response is sent and the request's objects are dropped
Respond ==
    /\ pc = "done"
    /\ Idle
    /\ UNCHANGED <<will_be_posted, was_posted, db, nextId>>

\* ---------------------------------------------------------------- helpers
\* index of the first "." of a token sequence, 0 when there is none
FirstDot(s) ==
    IF \E i \in 1..Len(s) : s[i] = "."
    THEN CHOOSE i \in 1..Len(s) : s[i] = "." /\ \A j \in 1..(i-1) : s[j] # "."
    ELSE 0

\* variant: ctype.split("."), a split at every separator
SplitAll(s) ==
    LET names == SelectSeq(s, LAMBDA t : t # ".") IN
    [i \in 1..Len(names) |-> <<names[i]>>]

\* ctype.split(".", 1)
Split(s) ==
    IF FirstDot(s) = 0 THEN <<s>>
    ELSE <<SubSeq(s, 1, FirstDot(s) - 1), SubSeq(s, FirstDot(s) + 1, Len(s))>>

\* a part of a split content type as a name: a single token, else no known name
PartName(p) == IF Len(p) = 1 THEN p[1] ELSE "?"

\* models.get_model(*parts) followed by manager.get(pk=object_pk):
\* the exception raised, or "" and the target
GetTarget(ctype, object_pk) ==
    LET parts == Split(ctype) IN
    IF Len(parts) # 2 THEN [exc |-> "TypeError", obj |-> None]
    ELSE IF <<PartName(parts[1]), PartName(parts[2])>> \notin InstalledModels
         THEN [exc |-> "AttributeError", obj |-> None]
    ELSE IF object_pk \notin WellFormedPks THEN [exc |-> "ValueError", obj |-> None]
    ELSE IF object_pk \notin ExistingPks THEN [exc |-> "ObjectDoesNotExist", obj |-> None]
    ELSE [exc |-> "", obj |-> Some(object_pk)]

\* the initial data filled from an authenticated user
FillName(d, user) ==
    IF user.is_authenticated /\ Get(d, "name", "") = ""
    THEN Put(d, "name", IF user.full_name # "" THEN user.full_name ELSE user.username)
    ELSE d

FillEmail(d, user) ==
    IF user.is_authenticated /\ Get(d, "email", "") = ""
    THEN Put(d, "email", user.email)
    ELSE d

\* variant: data.get("preview"), the truth value of the field
PreviewTruthy(d) == Get(d, "preview", "") # ""

\* "preview" in data
Preview(d) == "preview" \in DOMAIN d

\* comments.get_form()(target, data=data)
CommentForm(d) ==
    [ errors          |-> {f \in RequiredFields : Get(d, f, "") = ""},
      security_errors |-> {f \in {"security_hash"} : Get(d, f, "") # "valid"} ]

\* form.get_comment_object(): a new, unsaved comment
GetCommentObject(d, tgt) ==
    [id |-> None, ip_address |-> None, user |-> None, name |-> d["name"], object_pk |-> tgt[1]]

\* render_to_string('comments/comment.html', ...)
RenderComment(c, action) ==
    [template |-> "comments/comment.html", comment |-> c, action |-> action,
     preview |-> (action = "preview")]

\* _render_errors(field)
RenderErrors(field_name) ==
    [template |-> "layout/field_errors.html", field |-> field_name, form_show_errors |-> TRUE]

\* variant: success is not cleared when the form has errors
AjaxResultAlwaysSuccess(f, action, c) ==
    HttpResponse(
        [ success    |-> TRUE,
          action     |-> action,
          errors     |-> [field_name \in f.errors |-> RenderErrors(field_name)],
          html       |-> IF c # None THEN Some(RenderComment(c[1], action)) ELSE None,
          comment_id |-> IF c # None THEN c[1].id ELSE None ])

\* variant: the field errors are not copied into the envelope
AjaxResultNoErrors(f, action, c) ==
    HttpResponse(
        [ success    |-> (f.errors = {}),
          action     |-> action,
          errors     |-> <<>>,
          html       |-> IF c # None THEN Some(RenderComment(c[1], action)) ELSE None,
          comment_id |-> IF c # None THEN c[1].id ELSE None ])

\* _ajax_result(request, form, action, comment)
AjaxResult(f, action, c) ==
    HttpResponse(
        [ success    |-> (f.errors = {}),
          action     |-> action,
          errors     |-> [field_name \in f.errors |-> RenderErrors(field_name)],
          html       |-> IF c # None THEN Some(RenderComment(c[1], action)) ELSE None,
          comment_id |-> IF c # None THEN c[1].id ELSE None ])

\* the first receiver whose response equals False, 0 when there is none
FirstKiller(rs) ==
    IF \E i \in 1..Len(rs) : EqualsFalse(rs[i][2])
    THEN rs[CHOOSE i \in 1..Len(rs) :
                EqualsFalse(rs[i][2]) /\ \A j \in 1..(i-1) : ~EqualsFalse(rs[j][2])][1]
    ELSE 0

\* index of the first receiver that raises, 0 when none does
FirstRaise(o, n) ==
    IF \E i \in 1..n : o[i] = Raise
    THEN CHOOSE i \in 1..n : o[i] = Raise /\ \A j \in 1..(i-1) : o[j] # Raise
    ELSE 0

\* variant: a dispatch that also stops at the first response equal to False
SendUntilVeto(o, n) ==
    LET stops == {i \in 1..n : o[i] = Raise \/ EqualsFalse(o[i])}
        k == IF stops = {} THEN 0 ELSE CHOOSE i \in stops : \A j \in stops : i <= j
    IN  [ calls  |-> [i \in 1..(IF k = 0 THEN n ELSE k) |-> <<i, o[i]>>],
          raised |-> (k # 0 /\ o[k] = Raise) ]

\* Signal.send to n receivers whose outcomes are o: the calls made, in order,
\* and whether the send ended by a receiver's exception
Send(o, n) ==
    LET k == FirstRaise(o, n) IN
    [ calls  |-> [i \in 1..(IF k = 0 THEN n ELSE k) |-> <<i, o[i]>>],
      raised |-> (k # 0) ]

\* ---------------------------------------------------------------- the view
\* the view returns resp
Return(resp) ==
    /\ response' = resp
    /\ pc' = "done"

\* if not request.is_ajax(): return HttpResponseBadRequest(...)
CheckAjax ==
    /\ pc = "is_ajax"
    /\ IF ~request.is_ajax
       THEN Return(HttpResponseBadRequest("Expecting Ajax call", <<>>))
       ELSE pc' = "fill" /\ UNCHANGED response
    /\ UNCHANGED <<will_be_posted, was_posted, db, nextId, request, data, target,
                   form, comment, responses, invoked, notified, events, dbBefore>>

\* data = request.POST.copy(), filled from the authenticated user
FillInitialData ==
    /\ pc = "fill"
    /\ data' = FillEmail(FillName(request.POST, request.user), request.user)
    /\ pc' = "lookup"
    /\ UNCHANGED <<will_be_posted, was_posted, db, nextId, request, target, form,
                   comment, responses, invoked, notified, events, dbBefore, response>>

\* look up the object the comment is about
LookupTarget ==
    /\ pc = "lookup"
    /\ IF "content_type" \notin DOMAIN data \/ "object_pk" \notin DOMAIN data
       THEN /\ Return(CommentPostBadRequest("Missing content_type or object_pk field.", <<>>))
            /\ UNCHANGED target
       ELSE LET ctype == data["content_type"]
                object_pk == data["object_pk"]
                r == GetTarget(ctype, object_pk)
            IN  CASE r.exc = "TypeError" ->
                       /\ Return(CommentPostBadRequest("Invalid content_type value", <<ctype>>))
                       /\ UNCHANGED target
                  [] r.exc = "AttributeError" ->
                       /\ Return(CommentPostBadRequest(
                              "The given content-type does not resolve to a valid model.", <<ctype>>))
                       /\ UNCHANGED target
                  [] r.exc = "ObjectDoesNotExist" ->
                       /\ Return(CommentPostBadRequest(
                              "No object matching content-type and object PK exists.",
                              <<ctype, object_pk>>))
                       /\ UNCHANGED target
                  [] r.exc = "ValueError" ->
                       /\ Return(CommentPostBadRequest(
                              "Attempting go get content-type and object PK exists raised",
                              <<ctype, object_pk, "ValueError">>))
                       /\ UNCHANGED target
                  [] OTHER ->
                       /\ target' = r.obj
                       /\ pc' = "form"
                       /\ UNCHANGED response
    /\ UNCHANGED <<will_be_posted, was_posted, db, nextId, request, data, form,
                   comment, responses, invoked, notified, events, dbBefore>>

\* variant: the form is constructed and its security errors are not looked at
SecurityCheckUnchecked ==
    /\ pc = "form"
    /\ form' = CommentForm(data)
    /\ pc' = "branch"
    /\ UNCHANGED <<will_be_posted, was_posted, db, nextId, request, data, target,
                   comment, responses, invoked, notified, events, dbBefore, response>>

\* construct the comment form and check its security information
SecurityCheck ==
    /\ pc = "form"
    /\ form' = CommentForm(data)
    /\ IF form'.security_errors # {}
       THEN Return(CommentPostBadRequest(
                "The comment form failed security verification", <<form'.security_errors>>))
       ELSE pc' = "branch" /\ UNCHANGED response
    /\ UNCHANGED <<will_be_posted, was_posted, db, nextId, request, data, target,
                   comment, responses, invoked, notified, events, dbBefore>>

\* if preview: show the comment
PreviewComment ==
    /\ pc = "branch"
    /\ Preview(data)
    /\ comment' = IF form.errors = {} THEN Some(GetCommentObject(data, target)) ELSE None
    /\ Return(AjaxResult(form, "preview", comment'))
    /\ UNCHANGED <<will_be_posted, was_posted, db, nextId, request, data, target,
                   form, responses, invoked, notified, events, dbBefore>>

\* if form.errors: show the errors
ShowErrors ==
    /\ pc = "branch"
    /\ ~Preview(data)
    /\ form.errors # {}
    /\ Return(AjaxResult(form, "post", None))
    /\ UNCHANGED <<will_be_posted, was_posted, db, nextId, request, data, target,
                   form, comment, responses, invoked, notified, events, dbBefore>>

\* otherwise create the comment
CreateComment ==
    /\ pc = "branch"
    /\ ~Preview(data)
    /\ form.errors = {}
    /\ comment' = Some(
          [GetCommentObject(data, target) EXCEPT
              !.ip_address = IF "REMOTE_ADDR" \in DOMAIN request.META
                             THEN Some(request.META["REMOTE_ADDR"]) ELSE None,
              !.user = IF request.user.is_authenticated
                       THEN Some(request.user.username) ELSE None])
    /\ pc' = "will_be_posted"
    /\ UNCHANGED <<will_be_posted, was_posted, db, nextId, request, data, target,
                   form, responses, invoked, notified, events, dbBefore, response>>

\* responses = signals.comment_will_be_posted.send(...)
SendWillBePosted ==
    /\ pc = "will_be_posted"
    /\ events' = Append(events, "comment_will_be_posted")
    /\ \E o \in [1..will_be_posted -> ReceiverOutcomes] :
          LET sent == Send(o, will_be_posted) IN
          /\ invoked' = sent.calls
          /\ IF sent.raised
             THEN UNCHANGED responses /\ Return(ServerError)
             ELSE /\ responses' = sent.calls
                  /\ pc' = "responses"
                  /\ UNCHANGED response
    /\ UNCHANGED <<will_be_posted, was_posted, db, nextId, request, data, target,
                   form, comment, notified, dbBefore>>

\* variant: only the last response is compared with False
CheckLastResponseOnly ==
    /\ pc = "responses"
    /\ IF responses # <<>> /\ EqualsFalse(responses[Len(responses)][2])
       THEN Return(CommentPostBadRequest(
                "comment_will_be_posted receiver killed the comment",
                <<responses[Len(responses)][1]>>))
       ELSE pc' = "save" /\ UNCHANGED response
    /\ UNCHANGED <<will_be_posted, was_posted, db, nextId, request, data, target,
                   form, comment, responses, invoked, notified, events, dbBefore>>

\* for (receiver, response) in responses: if response == False: return ...
CheckResponses ==
    /\ pc = "responses"
    /\ IF FirstKiller(responses) # 0
       THEN Return(CommentPostBadRequest(
                "comment_will_be_posted receiver killed the comment",
                <<FirstKiller(responses)>>))
       ELSE pc' = "save" /\ UNCHANGED response
    /\ UNCHANGED <<will_be_posted, was_posted, db, nextId, request, data, target,
                   form, comment, responses, invoked, notified, events, dbBefore>>

\* comment.save()
Save ==
    /\ pc = "save"
    /\ comment' = Some([comment[1] EXCEPT !.id = Some(nextId)])
    /\ db' = db \cup {nextId}
    /\ nextId' = nextId + 1
    /\ events' = Append(events, "save")
    /\ pc' = "was_posted"
    /\ UNCHANGED <<will_be_posted, was_posted, request, data, target, form,
                   responses, invoked, notified, dbBefore, response>>

\* variant: send_robust, which calls every receiver and returns the exceptions
SendWasPostedRobust ==
    /\ pc = "was_posted"
    /\ events' = Append(events, "comment_was_posted")
    /\ \E o \in [1..was_posted -> {"None", Raise}] :
          notified' = [i \in 1..was_posted |-> <<i, o[i]>>]
    /\ pc' = "result"
    /\ UNCHANGED <<will_be_posted, was_posted, db, nextId, request, data, target,
                   form, comment, responses, invoked, dbBefore, response>>

\* signals.comment_was_posted.send(...)
SendWasPosted ==
    /\ pc = "was_posted"
    /\ events' = Append(events, "comment_was_posted")
    /\ \E o \in [1..was_posted -> {"None", Raise}] :
          LET sent == Send(o, was_posted) IN
          /\ notified' = sent.calls
          /\ IF sent.raised
             THEN Return(ServerError)
             ELSE pc' = "result" /\ UNCHANGED response
    /\ UNCHANGED <<will_be_posted, was_posted, db, nextId, request, data, target,
                   form, comment, responses, invoked, dbBefore>>

\* variant: the saved comment is not passed to _ajax_result
PostResultWithoutComment ==
    /\ pc = "result"
    /\ Return(AjaxResult(form, "post", None))
    /\ UNCHANGED <<will_be_posted, was_posted, db, nextId, request, data, target,
                   form, comment, responses, invoked, notified, events, dbBefore>>

\* return _ajax_result(request, form, "post", comment)
PostResult ==
    /\ pc = "result"
    /\ Return(AjaxResult(form, "post", comment))
    /\ UNCHANGED <<will_be_posted, was_posted, db, nextId, request, data, target,
                   form, comment, responses, invoked, notified, events, dbBefore>>

Next ==
    \/ Receive
    \/ CheckAjax
    \/ FillInitialData
    \/ LookupTarget
    \/ SecurityCheck
    \/ PreviewComment
    \/ ShowErrors
    \/ CreateComment
    \/ SendWillBePosted
    \/ CheckResponses
    \/ Save
    \/ SendWasPosted
    \/ PostResult
    \/ Respond


Spec == Init /\ [][Next]_vars

\* ---------------------------------------------------------------- vocabulary of the properties
\* These are stated over the request and the recorded history, without the
\* operators the view is built from.

Done == pc = "done"

Posted(k) == k \in DOMAIN request.POST

\* the posted type and key name an existing object
Resolvable ==
    /\ Posted("content_type") /\ Posted("object_pk")
    /\ request.POST["content_type"] = CtValid
    /\ request.POST["object_pk"] \in ExistingPks

\* the form's security check passes
SecurityPasses == Posted("security_hash") /\ request.POST["security_hash"] = "valid"

PostedBlank(f) == ~Posted(f) \/ request.POST[f] = ""

\* the required fields that are blank once the user's defaults are filled in
ErrorFields ==
    { f \in RequiredFields :
        /\ PostedBlank(f)
        /\ CASE f = "name"  -> ~request.user.is_authenticated
             [] f = "email" -> ~request.user.is_authenticated \/ request.user.email = ""
             [] OTHER       -> TRUE }

\* a response that vetoes: a value equal to False
Vetoes(r) == r = "False" \/ r = "0"

Vetoed == \E i \in 1..Len(invoked) : Vetoes(invoked[i][2])
PreRaised == \E i \in 1..Len(invoked) : invoked[i][2] = Raise
PostRaised == \E i \in 1..Len(notified) : notified[i][2] = Raise

\* the first pre-save receiver, in call order, whose response vetoes
FirstVetoer ==
    invoked[CHOOSE i \in 1..Len(invoked) :
                Vetoes(invoked[i][2]) /\ \A j \in 1..(i-1) : ~Vetoes(invoked[j][2])][1]

Happened(e) == \E i \in 1..Len(events) : events[i] = e

\* the request reaches the point where the comment is created
PostPath ==
    /\ request.is_ajax
    /\ Resolvable
    /\ SecurityPasses
    /\ ~Posted("preview")
    /\ ErrorFields = {}

OneNewRecord == dbBefore \subseteq db /\ Cardinality(db \ dbBefore) = 1

Envelope == response.json[1]
IsEnvelope == response.status = 200 /\ response.mimetype = "application/json" /\ response.json # None

KilledMessage == "comment_will_be_posted receiver killed the comment"

\* ---------------------------------------------------------------- C1
\* C1 as stated: when a request is answered, a comment record has been
\* persisted if and only if the request is a post (no preview field) whose
\* form has no security and no validation errors and that no pre-save
\* listener vetoed.
C1_AsStated ==
    Done => ((db # dbBefore) <=> (PostPath /\ ~Vetoed))

\* C1 (amended): when a request is answered, exactly one comment record has
\* been persisted if the request is a post whose form has no security and no
\* validation errors, no pre-save listener vetoed and no pre-save listener
\* raised; on every other path the set of persisted comments is unchanged.
C1_PersistedIff ==
    Done => IF PostPath /\ ~Vetoed /\ ~PreRaised
            THEN OneNewRecord
            ELSE db = dbBefore

C1_Witness ==
    /\ Done /\ PostPath /\ ~Vetoed /\ ~PreRaised
    /\ Len(invoked) = 2
    /\ dbBefore # {} /\ db # dbBefore

\* ---------------------------------------------------------------- C2
\* C2 as stated: if any pre-save listener returns a veto, the response is a
\* 400 naming the first vetoing listener in registration order, nothing is
\* persisted and no post-save notification is dispatched; a response that is
\* a veto never names a listener that abstained or allowed.
C2_AsStated ==
    /\ (Done /\ Vetoed) =>
          /\ response.status = 400
          /\ response.message = KilledMessage
          /\ response.detail = <<FirstVetoer>>
          /\ db = dbBefore
          /\ ~Happened("comment_was_posted")
    /\ (Done /\ response.message = KilledMessage) =>
          invoked[response.detail[1]][2] \notin {"None", "True"}

\* C2 (amended): if any pre-save listener returns a value equal to False,
\* nothing is persisted and no post-save notification is dispatched, and,
\* unless a pre-save listener raised, the response is a 400 naming the first
\* such listener in registration order; a listener that abstains or allows
\* never causes a veto.
C2_VetoKills ==
    /\ (Done /\ Vetoed) =>
          /\ db = dbBefore
          /\ ~Happened("comment_was_posted")
          /\ ~Happened("save")
          /\ notified = <<>>
          /\ IF PreRaised
             THEN response.status = 500
             ELSE /\ response.status = 400
                  /\ response.message = KilledMessage
                  /\ response.detail = <<FirstVetoer>>
    /\ (Done /\ response.message = KilledMessage) =>
          /\ Vetoed
          /\ Vetoes(invoked[response.detail[1]][2])
    /\ (Done /\ ~Vetoed) => response.message # KilledMessage

C2_Witness ==
    /\ Done
    /\ Len(invoked) = 2
    /\ invoked[1][2] = "None"
    /\ invoked[2][2] = "False"
    /\ response.status = 400
    /\ response.detail = <<2>>

\* ---------------------------------------------------------------- C3
\* C3 as stated: pre-save listeners are invoked in registration order, and
\* no listener is invoked after a listener that vetoed.
C3_AsStated ==
    \A i \in 1..Len(invoked) :
        /\ invoked[i][1] = i
        /\ \A j \in 1..(i-1) : ~Vetoes(invoked[j][2])

\* C3 (amended): pre-save listeners are invoked in registration order, and
\* every registered listener is invoked, also after a veto; only a listener
\* that raises ends the dispatch, and no listener is invoked after it.
C3_DispatchOrder ==
    /\ \A i \in 1..Len(invoked) :
          /\ invoked[i][1] = i
          /\ \A j \in 1..(i-1) : invoked[j][2] # Raise
    /\ Len(invoked) <= will_be_posted
    /\ (Happened("comment_will_be_posted") /\ ~PreRaised) => Len(invoked) = will_be_posted

C3_Witness ==
    /\ Len(invoked) = 2
    /\ Vetoes(invoked[1][2])
    /\ ~PreRaised

\* ---------------------------------------------------------------- C4
\* C4: an async request with a resolvable target, a form without security
\* or validation errors and a preview field (whatever its value) is answered
\* by the envelope with action "preview", success true, html not null and
\* comment_id null; nothing is persisted and no listener is invoked.
C4_Preview ==
    (Done /\ request.is_ajax /\ Resolvable /\ SecurityPasses /\ ErrorFields = {}
          /\ Posted("preview")) =>
        /\ IsEnvelope
        /\ Envelope.action = "preview"
        /\ Envelope.success = TRUE
        /\ Envelope.html # None
        /\ Envelope.comment_id = None
        /\ db = dbBefore
        /\ invoked = <<>>
        /\ notified = <<>>
        /\ events = <<>>

C4_Witness ==
    /\ Done /\ request.is_ajax /\ Resolvable /\ SecurityPasses /\ ErrorFields = {}
    /\ Posted("preview") /\ request.POST["preview"] = ""
    /\ will_be_posted > 0
    /\ IsEnvelope

\* ---------------------------------------------------------------- C5
\* C5 as stated: an async post (no preview field) with a resolvable target
\* and a form without security or validation errors, with no pre-save
\* listener vetoing or raising, is answered by the envelope with action
\* "post", success true and the identifier of the one new comment record.
C5_AsStated ==
    (Done /\ PostPath /\ ~Vetoed /\ ~PreRaised) =>
        /\ IsEnvelope
        /\ Envelope.action = "post"
        /\ Envelope.success = TRUE
        /\ Envelope.comment_id # None
        /\ db = dbBefore \cup {Envelope.comment_id[1]}
        /\ Envelope.comment_id[1] \notin dbBefore

\* C5 (amended): in that case exactly one new comment record exists
\* afterward, and, unless a post-save listener raised, the response is the
\* envelope with action "post", success true and that record's identifier.
C5_Post ==
    (Done /\ PostPath /\ ~Vetoed /\ ~PreRaised) =>
        /\ OneNewRecord
        /\ ~PostRaised =>
              /\ IsEnvelope
              /\ Envelope.action = "post"
              /\ Envelope.success = TRUE
              /\ Envelope.comment_id # None
              /\ db = dbBefore \cup {Envelope.comment_id[1]}
              /\ Envelope.comment_id[1] \notin dbBefore

C5_Witness ==
    /\ Done /\ PostPath /\ ~Vetoed /\ ~PreRaised /\ ~PostRaised
    /\ IsEnvelope
    /\ dbBefore = {1}
    /\ Envelope.comment_id = Some(2)

\* ---------------------------------------------------------------- C6
\* C6: an async request with a resolvable target, no preview field and a
\* form that passes the security check but has a field error is answered by
\* the envelope (not a 400) with action "post", success false, an errors
\* entry for every field in error, html null and comment_id null; nothing is
\* persisted and no listener is invoked.
C6_Errors ==
    (Done /\ request.is_ajax /\ Resolvable /\ SecurityPasses /\ ErrorFields # {}
          /\ ~Posted("preview")) =>
        /\ IsEnvelope
        /\ Envelope.action = "post"
        /\ Envelope.success = FALSE
        /\ DOMAIN Envelope.errors = ErrorFields
        /\ Envelope.html = None
        /\ Envelope.comment_id = None
        /\ db = dbBefore
        /\ invoked = <<>>
        /\ notified = <<>>
        /\ events = <<>>

C6_Witness ==
    /\ Done /\ request.is_ajax /\ Resolvable /\ SecurityPasses
    /\ ~Posted("preview")
    /\ ErrorFields = {"email", "comment"}
    /\ request.user.is_authenticated
    /\ IsEnvelope

\* ---------------------------------------------------------------- C7
HasDot(ct) == \E i \in 1..Len(ct) : ct[i] = "."

\* the message of the first check the request fails, "" when it passes all
FirstFailure ==
    IF ~request.is_ajax THEN "Expecting Ajax call"
    ELSE IF ~Posted("content_type") \/ ~Posted("object_pk")
         THEN "Missing content_type or object_pk field."
    ELSE IF ~HasDot(request.POST["content_type"]) THEN "Invalid content_type value"
    ELSE IF request.POST["content_type"] # CtValid
         THEN "The given content-type does not resolve to a valid model."
    ELSE IF request.POST["object_pk"] \notin WellFormedPks
         THEN "Attempting go get content-type and object PK exists raised"
    ELSE IF request.POST["object_pk"] \notin ExistingPks
         THEN "No object matching content-type and object PK exists."
    ELSE IF ~SecurityPasses THEN "The comment form failed security verification"
    ELSE ""

CheckMessages ==
    { "Expecting Ajax call",
      "Missing content_type or object_pk field.",
      "Invalid content_type value",
      "The given content-type does not resolve to a valid model.",
      "Attempting go get content-type and object PK exists raised",
      "No object matching content-type and object PK exists.",
      "The comment form failed security verification" }

\* C7: the checks are applied in the order async marker, presence of
\* content_type and object_pk, target resolution, form security check, and
\* the first one that fails alone determines the 400 response, whatever the
\* preview flag, the form's validity or the authentication; a request that
\* passes them all gets none of these responses.
C7_CheckOrder ==
    Done => IF FirstFailure # ""
            THEN /\ response.status = 400
                 /\ response.message = FirstFailure
                 /\ db = dbBefore
                 /\ events = <<>>
            ELSE response.message \notin CheckMessages

C7_Witness ==
    /\ Done
    /\ request.is_ajax
    /\ Resolvable
    /\ ~SecurityPasses
    /\ Posted("preview")
    /\ ErrorFields # {}
    /\ response.status = 400

\* ---------------------------------------------------------------- C8
EventOrder == <<"comment_will_be_posted", "save", "comment_was_posted">>

\* C8: in every request the events are a prefix of pre-save dispatch, save,
\* post-save dispatch; the save happens only after a pre-save dispatch that
\* completed without a veto; a request writes at most one record.
C8_EventOrder ==
    /\ Len(events) <= 3
    /\ events = SubSeq(EventOrder, 1, Len(events))
    /\ Happened("save") =>
          /\ Len(invoked) = will_be_posted
          /\ ~Vetoed
          /\ ~PreRaised
    /\ dbBefore \subseteq db
    /\ Cardinality(db \ dbBefore) <= 1
    /\ (db # dbBefore) <=> Happened("save")

C8_Witness ==
    /\ Done
    /\ events = EventOrder
    /\ Len(invoked) = 2
    /\ Len(notified) = 1

\* ---------------------------------------------------------------- C9
\* C9: when a post-save listener raises, the request ends as a server error,
\* neither a 400 nor an envelope, and the comment saved just before the
\* dispatch is still persisted.
C9_PostSaveRaise ==
    (Done /\ PostRaised) =>
        /\ response.status = 500
        /\ response.json = None
        /\ comment # None
        /\ comment[1].id # None
        /\ comment[1].id[1] \in db
        /\ comment[1].id[1] \notin dbBefore
        /\ OneNewRecord

C9_Witness ==
    /\ Done /\ PostRaised
    /\ response.status = 500
    /\ db = {1, 2}

\* ---------------------------------------------------------------- C10
\* C10: every envelope has success true exactly when the form has no
\* validation errors, an errors entry for exactly the fields in error, html
\* not null exactly when a comment object was built, and comment_id not null
\* exactly when the comment was persisted; a preview whose form has errors
\* gives action "preview", success false, html null and comment_id null.
C10_Envelope ==
    (Done /\ IsEnvelope) =>
        /\ Envelope.success <=> (ErrorFields = {})
        /\ DOMAIN Envelope.errors = ErrorFields
        /\ (Envelope.html # None) <=> (comment # None)
        /\ (Envelope.html # None) <=> (ErrorFields = {})
        /\ (Envelope.comment_id # None) <=> (db # dbBefore)
        /\ Envelope.action = IF Posted("preview") THEN "preview" ELSE "post"
        /\ (Posted("preview") /\ ErrorFields # {}) =>
              /\ Envelope.action = "preview"
              /\ Envelope.success = FALSE
              /\ Envelope.html = None
              /\ Envelope.comment_id = None

C10_Witness ==
    /\ Done /\ IsEnvelope
    /\ Posted("preview")
    /\ ErrorFields # {}
    /\ Envelope.action = "preview"
====
